---- MODULE Spec2Model ----
(***************************************************************************)
(* A model of src/bot.py: the ticker recognizer (TICKER_RE,                *)
(* is_candidate_ticker, extract_tickers, load_stopwords) and the two       *)
(* aggregators (build_scoreboard, build_cross_sub_radar).                  *)
(*                                                                         *)
(* Text is a sequence of one-character strings.  Floating point values of  *)
(* the radar are fixed point integers: weights in hundredths, engagement   *)
(* in thousandths, contributions and totals in units of 1e-5.  Time is in  *)
(* whole hours.                                                            *)
(***************************************************************************)
EXTENDS Integers, Sequences, FiniteSets, TLC

VARIABLES
    entry,                \* which function is running: "extract", "board", "radar"
    pc,                   \* position inside it
    stopwords,            \* the stopword set handed to the recognizer
    stop_file,            \* lines of tickers_stopwords.txt
    text,                 \* argument of extract_tickers
    result,               \* value returned by extract_tickers
    comments,             \* thread.comments of build_scoreboard
    max_tickers,          \* argument of build_scoreboard
    ci,                   \* index of the next comment of the loop
    ticker_authors,       \* dict ticker -> set of authors
    ticker_best_comment,  \* dict ticker -> (score, link)
    items,                \* value returned by build_scoreboard
    first_items,          \* value returned by an earlier call on the same comments
    cfg,                  \* argument of build_cross_sub_radar
    now,                  \* datetime.now(), in hours; a call takes far less than an hour
    max_out,              \* parsed cross_max_tickers
    si,                   \* index of the next entry of cfg.cross_subs
    cur,                  \* the parsed source whose posts are being read
    fetched,              \* posts yielded so far in this call
    in_feed,              \* posts yielded so far by the current listing
    seen,                 \* posts read so far, with their source and read time
    agg_score,            \* dict ticker -> total
    best_link,            \* dict ticker -> (contribution, url)
    best_src,             \* dict ticker -> "r/<name>"
    radar                 \* value returned by build_cross_sub_radar

vars == <<entry, pc, stopwords, stop_file, text, result, comments, max_tickers,
          ci, ticker_authors, ticker_best_comment, items, first_items, cfg, now,
          max_out, si, cur, fetched, in_feed, seen, agg_score, best_link,
          best_src, radar>>

extract_vars == <<stop_file, text, result>>
board_vars == <<comments, max_tickers, ci, ticker_authors, ticker_best_comment,
                items, first_items>>
radar_vars == <<cfg, now, max_out, si, cur, fetched, in_feed, seen, agg_score,
                best_link, best_src, radar>>

(***************************************************************************)
(* Bounds of the model.                                                    *)
(***************************************************************************)
MaxTextLen == 3
MaxStopLines == 2
MaxComments == 3
MaxSubs == 2
MaxPosts == 2

(***************************************************************************)
(* Characters and strings.                                                 *)
(***************************************************************************)
UpperChars == <<"A","B","C","D","E","F","G","H","I","J","K","L","M",
                "N","O","P","Q","R","S","T","U","V","W","X","Y","Z">>
LowerChars == <<"a","b","c","d","e","f","g","h","i","j","k","l","m",
                "n","o","p","q","r","s","t","u","v","w","x","y","z">>
Digits == {"0","1","2","3","4","5","6","7","8","9"}
Whitespace == {" ", "\n", "\t"}

Range(s) == {s[i] : i \in DOMAIN s}

UpperLetters == Range(UpperChars)
LowerLetters == Range(LowerChars)

IsUpperLetter(c) == c \in UpperLetters
IsLowerLetter(c) == c \in LowerLetters
IsDigit(c) == c \in Digits

\* ord() of an upper-case letter, relative to "A"
Ord(c) == CHOOSE i \in DOMAIN UpperChars : UpperChars[i] = c

UpperChar(c) ==
    IF IsLowerLetter(c)
    THEN UpperChars[CHOOSE i \in DOMAIN LowerChars : LowerChars[i] = c]
    ELSE c

LowerChar(c) ==
    IF IsUpperLetter(c)
    THEN LowerChars[CHOOSE i \in DOMAIN UpperChars : UpperChars[i] = c]
    ELSE c

\* str.upper()
Upper(s) == [i \in DOMAIN s |-> UpperChar(s[i])]

\* str.lower()
Lower(s) == [i \in DOMAIN s |-> LowerChar(s[i])]

\* str.strip()
RECURSIVE LStrip(_)
LStrip(s) == IF s # <<>> /\ Head(s) \in Whitespace THEN LStrip(Tail(s)) ELSE s

RECURSIVE RStrip(_)
RStrip(s) ==
    IF s # <<>> /\ s[Len(s)] \in Whitespace
    THEN RStrip(SubSeq(s, 1, Len(s) - 1))
    ELSE s

Strip(s) == RStrip(LStrip(s))

\* s.startswith(p)
StartsWith(s, p) == Len(s) >= Len(p) /\ SubSeq(s, 1, Len(p)) = p

\* Python's < on two strings of upper-case letters
RECURSIVE StrLess(_, _)
StrLess(a, b) ==
    IF b = <<>> THEN FALSE
    ELSE IF a = <<>> THEN TRUE
    ELSE IF Head(a) # Head(b) THEN Ord(Head(a)) < Ord(Head(b))
    ELSE StrLess(Tail(a), Tail(b))

(***************************************************************************)
(* TICKER_RE = (?<![A-Z0-9$])(\$?[A-Z]{1,5})(?![A-Z0-9])                   *)
(***************************************************************************)
MaxTickerLen == 5

\* (?<![A-Z0-9$]) at position p
LookBehindOK(u, p) ==
    p = 1 \/ ~(IsUpperLetter(u[p-1]) \/ IsDigit(u[p-1]) \/ u[p-1] = "$")

LookAheadOKLettersOnly(u, e) ==
    e > Len(u) \/ ~IsUpperLetter(u[e])

\* (?![A-Z0-9]) at position e
LookAheadOK(u, e) ==
    e > Len(u) \/ ~(IsUpperLetter(u[e]) \/ IsDigit(u[e]))

\* [A-Z]{1,5}(?![A-Z0-9]) at position q, trying n letters first and then,
\* as the engine backtracks, fewer: the number of letters matched, 0 for none.
RECURSIVE LettersMatch(_, _, _)
LettersMatch(u, q, n) ==
    IF n = 0 THEN 0
    ELSE IF /\ q + n - 1 <= Len(u)
            /\ \A k \in q..(q + n - 1) : IsUpperLetter(u[k])
            /\ LookAheadOK(u, q + n)
         THEN n
         ELSE LettersMatch(u, q, n - 1)

\* Length of the match of the whole pattern at p, 0 when it does not match
\* there.  "\$?" is greedy: the "$" is taken first, and given up only when
\* the rest does not match behind it.
MatchLen(u, p) ==
    IF ~LookBehindOK(u, p) THEN 0
    ELSE LET with == IF u[p] = "$" THEN LettersMatch(u, p + 1, MaxTickerLen) ELSE 0
         IN IF with > 0 THEN 1 + with
            ELSE LettersMatch(u, p, MaxTickerLen)

\* TICKER_RE.finditer(u): group 1 of the non-overlapping matches, leftmost first
RECURSIVE FindIter(_, _)
FindIter(u, p) ==
    IF p > Len(u) THEN <<>>
    ELSE LET n == MatchLen(u, p)
         IN IF n = 0 THEN FindIter(u, p + 1)
            ELSE <<SubSeq(u, p, p + n - 1)>> \o FindIter(u, p + n)

RejectList == {<<"A","A","A","A">>, <<"B","B","B","B">>, <<"C","C","C","C">>}

is_candidate_ticker_NoStopwordTest(raw, sw) ==
    LET t == Upper(raw)
        dollar == StartsWith(t, <<"$">>)
        t2 == Tail(t)
    IN IF dollar /\ Len(t2) = 1 THEN TRUE
       ELSE LET t3 == IF dollar THEN t2 ELSE t
            IN IF Len(t3) = 1 THEN FALSE
               ELSE IF t3 \in RejectList THEN FALSE
               ELSE TRUE

is_candidate_ticker(raw, sw) ==
    LET t == Upper(raw)
        dollar == StartsWith(t, <<"$">>)
        t2 == Tail(t)
    IN IF dollar /\ Len(t2) = 1 THEN TRUE
       ELSE LET t3 == IF dollar THEN t2 ELSE t
            IN IF Len(t3) = 1 THEN FALSE
               ELSE IF t3 \in sw THEN FALSE
               ELSE IF t3 \in RejectList THEN FALSE
               ELSE TRUE

StripDollar(raw) == IF StartsWith(raw, <<"$">>) THEN Tail(raw) ELSE raw

RECURSIVE FilterMatches(_, _)
FilterMatches(ms, sw) ==
    IF ms = <<>> THEN <<>>
    ELSE (IF is_candidate_ticker(Head(ms), sw)
          THEN <<StripDollar(Head(ms))>> ELSE <<>>)
         \o FilterMatches(Tail(ms), sw)

extract_tickers(txt, sw) ==
    IF txt = <<>> THEN <<>>
    ELSE FilterMatches(FindIter(Upper(txt), 1), sw)

\* load_stopwords(): the set built from the lines of the file
load_stopwords(lines) ==
    {Upper(Strip(lines[i])) : i \in
        {j \in DOMAIN lines :
            /\ Upper(Strip(lines[j])) # <<>>
            /\ ~StartsWith(Upper(Strip(lines[j])), <<"#">>)}}

(***************************************************************************)
(* Inputs of the recognizer.                                               *)
(***************************************************************************)
TextAlphabet == {"A", "f", "$", "1", " "}

RECURSIVE SeqsUpTo(_, _)
SeqsUpTo(S, n) ==
    IF n = 0 THEN {<<>>}
    ELSE LET shorter == SeqsUpTo(S, n - 1)
         IN shorter \cup {Append(s, x) : s \in shorter, x \in S}

\* the input of the boundary example
SampleText ==
    <<"N","A","S","A","1"," ","A","A","P","L",","," ","$","F"," ",
      "s","a","i","d"," ","T","S","L","A","2","d","a","y">>

ExtraTexts ==
    { SampleText,
      <<"A","A","A","A">>, <<"$","a","a","a","a">>,
      <<"A","f","A","f","A">>, <<"A","f","A","f","A","f">>,
      <<"$","A","f","A","f","A">>, <<"$","A","f","A","f","A","f">>,
      <<"A","f","A","f","A","1">> }

Texts == SeqsUpTo(TextAlphabet, MaxTextLen) \cup ExtraTexts

StopLinePool ==
    { <<"f","\n">>, <<"A","F","\n">>, <<" ","s","a","i","d"," ","\n">>,
      <<"#","f","\n">> }

StopFiles == SeqsUpTo(StopLinePool, MaxStopLines)

(***************************************************************************)
(* Values that stand for "nothing is running".                             *)
(***************************************************************************)
NoCfg == [enabled |-> FALSE, cross_max_tickers |-> [k |-> "missing", n |-> 0],
          cross_subs |-> <<>>]
NoCur == [name |-> <<>>, weight |-> 0, mode |-> "hot", limit_posts |-> 0,
          lookback_hours |-> 0]

ExtractIdle ==
    /\ stop_file = <<>>
    /\ text = <<>>
    /\ result = <<>>

BoardIdle ==
    /\ comments = <<>>
    /\ max_tickers = 0
    /\ ci = 1
    /\ ticker_authors = <<>>
    /\ ticker_best_comment = <<>>
    /\ items = <<>>
    /\ first_items = <<>>

RadarIdle ==
    /\ cfg = NoCfg
    /\ now = 0
    /\ max_out = 0
    /\ si = 1
    /\ cur = NoCur
    /\ fetched = 0
    /\ in_feed = 0
    /\ seen = <<>>
    /\ agg_score = <<>>
    /\ best_link = <<>>
    /\ best_src = <<>>
    /\ radar = <<>>

(***************************************************************************)
(* The recognizer as it is run: load_stopwords(), then extract_tickers.    *)
(***************************************************************************)
InitExtract ==
    /\ entry = "extract"
    /\ pc = "load"
    /\ stopwords = {}
    /\ stop_file \in StopFiles
    /\ text \in Texts
    /\ result = <<>>
    /\ BoardIdle
    /\ RadarIdle

LoadStopwords ==
    /\ entry = "extract"
    /\ pc = "load"
    /\ stopwords' = load_stopwords(stop_file)
    /\ pc' = "call"
    /\ UNCHANGED <<entry, extract_vars, board_vars, radar_vars>>

ExtractTickers ==
    /\ entry = "extract"
    /\ pc = "call"
    /\ result' = extract_tickers(text, stopwords)
    /\ pc' = "done"
    /\ UNCHANGED <<entry, stopwords, stop_file, text, board_vars, radar_vars>>

NextExtract == LoadStopwords \/ ExtractTickers

SpecExtract == InitExtract /\ [][NextExtract]_vars

(***************************************************************************)
(* Helpers shared by the two aggregators.                                  *)
(***************************************************************************)
BaseUrl == "https://www.reddit.com"

\* "https://www.reddit.com" + permalink
Link(permalink) == <<BaseUrl, permalink>>

\* Python's None where a link or a source name is expected
None == <<>>

Min(a, b) == IF a <= b THEN a ELSE b
Max(a, b) == IF a >= b THEN a ELSE b

\* s[:n]
PySlice(s, n) ==
    IF n >= 0 THEN SubSeq(s, 1, Min(n, Len(s)))
    ELSE SubSeq(s, 1, Max(Len(s) + n, 0))

\* Python's > on the sort keys (number, ticker)
KeyGreaterAscendingTicker(a, b) ==
    a[1] > b[1] \/ (a[1] = b[1] /\ StrLess(a[2], b[2]))

KeyGreater(a, b) ==
    a[1] > b[1] \/ (a[1] = b[1] /\ StrLess(b[2], a[2]))

\* sorted(keys, reverse=True); no two keys are equal, a ticker being part of each
RECURSIVE SortedReverse(_)
SortedReverse(K) ==
    IF K = {} THEN <<>>
    ELSE LET m == CHOOSE x \in K : \A y \in K \ {x} : KeyGreater(x, y)
         IN <<m>> \o SortedReverse(K \ {m})

(***************************************************************************)
(* build_scoreboard                                                        *)
(***************************************************************************)
SkipComment(c) == ~c.has_body \/ c.author_null

NormAuthorKeepCase(c) == c.author

\* str(c.author).lower()
NormAuthor(c) == Lower(c.author)

CommentTickers(c, sw) == Range(extract_tickers(c.body, sw))

ScoreBeatsOrTies(score, prev) == score >= prev

\* score > prev[0]
ScoreBeats(score, prev) == score > prev

\* One iteration of "for c in top" with the author added only where the
\* comment also becomes the best one.
CommentStepAuthorIfBest(ta, tb, c, sw) ==
    IF SkipComment(c) \/ CommentTickers(c, sw) = {}
    THEN [authors |-> ta, best |-> tb]
    ELSE LET ts == CommentTickers(c, sw)
             wins(t) == t \notin DOMAIN tb \/ ScoreBeats(c.score, tb[t][1])
         IN [authors |->
                [t \in (DOMAIN ta) \cup ts |->
                    IF t \in ts /\ wins(t)
                    THEN (IF t \in DOMAIN ta THEN ta[t] ELSE {}) \cup {NormAuthor(c)}
                    ELSE IF t \in DOMAIN ta THEN ta[t] ELSE {}],
             best |->
                [t \in (DOMAIN tb) \cup ts |->
                    IF t \in ts /\ wins(t)
                    THEN <<c.score, Link(c.permalink)>>
                    ELSE tb[t]]]

\* One iteration of "for c in top": the two dicts after comment c.
CommentStep(ta, tb, c, sw) ==
    IF SkipComment(c) \/ CommentTickers(c, sw) = {}
    THEN [authors |-> ta, best |-> tb]
    ELSE LET ts == CommentTickers(c, sw)
         IN [authors |->
                [t \in (DOMAIN ta) \cup ts |->
                    IF t \in ts
                    THEN (IF t \in DOMAIN ta THEN ta[t] ELSE {}) \cup {NormAuthor(c)}
                    ELSE ta[t]],
             best |->
                [t \in (DOMAIN tb) \cup ts |->
                    IF t \in ts /\ (t \notin DOMAIN tb \/ ScoreBeats(c.score, tb[t][1]))
                    THEN <<c.score, Link(c.permalink)>>
                    ELSE tb[t]]]

\* sorted(ticker_authors.items(), key=(len(authors), ticker), reverse=True)[:max_tickers]
BoardRanked(ta, mx) ==
    PySlice(SortedReverse({<<Cardinality(ta[t]), t>> : t \in DOMAIN ta}), mx)

BoardItems(ta, tb, mx) ==
    LET ranked == BoardRanked(ta, mx)
    IN [i \in DOMAIN ranked |->
           [ticker |-> ranked[i][2],
            unique_authors |-> Cardinality(ta[ranked[i][2]]),
            best_comment |-> IF ranked[i][2] \in DOMAIN tb
                             THEN tb[ranked[i][2]][2] ELSE None]]

Comment(body, author, score, permalink) ==
    [has_body |-> TRUE, body |-> body, author_null |-> FALSE, author |-> author,
     score |-> score, permalink |-> permalink]

CommentPool ==
    { Comment(<<"G","M","E"," ","g","m","e">>, <<"A","n","n">>, 5, "/c1"),
      Comment(<<"g","m"," ","G","M","E">>, <<"a","n","n">>, 5, "/c2"),
      Comment(<<"G","M",","," ","$","f">>, <<"b","o">>, 1, "/c3"),
      Comment(<<"$","F"," ","1","G","M","E">>, <<"a","n","n">>, 7, "/c4"),
      [Comment(<<"G","M","E">>, <<>>, 9, "/c5") EXCEPT !.author_null = TRUE],
      [Comment(<<>>, <<"b","o">>, 8, "/c6") EXCEPT !.has_body = FALSE] }

MaxTickersValues == {-1, 0, 1, 2}

BoardStopwords == {{}, {<<"G","M">>}}

InitBoard ==
    /\ entry = "board"
    /\ pc = "loop"
    /\ stopwords \in BoardStopwords
    /\ comments \in SeqsUpTo(CommentPool, MaxComments)
    /\ max_tickers \in MaxTickersValues
    /\ ci = 1
    /\ ticker_authors = <<>>
    /\ ticker_best_comment = <<>>
    /\ items = <<>>
    /\ first_items = <<>>
    /\ ExtractIdle
    /\ RadarIdle

\* lines 186-203, one comment
ProcessComment ==
    /\ entry = "board"
    /\ pc = "loop"
    /\ ci <= Len(comments)
    /\ LET st == CommentStep(ticker_authors, ticker_best_comment, comments[ci], stopwords)
       IN /\ ticker_authors' = st.authors
          /\ ticker_best_comment' = st.best
    /\ ci' = ci + 1
    /\ UNCHANGED <<entry, pc, stopwords, comments, max_tickers, items, first_items,
                   extract_vars, radar_vars>>

\* lines 205-217
RankBoard ==
    /\ entry = "board"
    /\ pc = "loop"
    /\ ci > Len(comments)
    /\ items' = BoardItems(ticker_authors, ticker_best_comment, max_tickers)
    /\ pc' = "done"
    /\ UNCHANGED <<entry, stopwords, comments, max_tickers, ci, ticker_authors,
                   ticker_best_comment, first_items, extract_vars, radar_vars>>

\* The same comments in another order
Permuted(cs) ==
    {[i \in DOMAIN cs |-> cs[f[i]]] :
        f \in {g \in [DOMAIN cs -> DOMAIN cs] : \A i, j \in DOMAIN cs : g[i] = g[j] => i = j}}

\* build_scoreboard is called again on the same comments in another order
CallAgain ==
    /\ entry = "board"
    /\ pc = "done"
    /\ first_items = <<>>
    /\ first_items' = <<items>>
    /\ comments' \in Permuted(comments)
    /\ ci' = 1
    /\ ticker_authors' = <<>>
    /\ ticker_best_comment' = <<>>
    /\ items' = <<>>
    /\ pc' = "loop"
    /\ UNCHANGED <<entry, stopwords, max_tickers, extract_vars, radar_vars>>

NextBoard == ProcessComment \/ RankBoard

SpecBoard == InitBoard /\ [][NextBoard]_vars

NextPerm == ProcessComment \/ RankBoard \/ CallAgain

SpecPerm == InitBoard /\ [][NextPerm]_vars

(***************************************************************************)
(* build_cross_sub_radar                                                   *)
(***************************************************************************)
DefaultMaxOut == 8
DefaultWeight == 35          \* 0.35
DefaultLimitPosts == 40
DefaultLookbackHours == 24
EngagementCap == 12000       \* 12.0
Now0 == 100

\* A value of the configuration: absent, a number, or a string that is no number
Missing == [k |-> "missing", n |-> 0]
Num(n) == [k |-> "num", n |-> n]
Bad == [k |-> "bad", n |-> 0]

\* A string field of the configuration
NoStr == [present |-> FALSE, s |-> <<>>]
Str(s) == [present |-> TRUE, s |-> s]

\* int(s.get(key, d) or d), float(s.get(key, d) or d): "x or d" is d for an
\* absent field and for 0; int() and float() raise ValueError on a string
\* that is no number.
ParseNumber(v, d) ==
    IF v.k = "missing" \/ (v.k = "num" /\ v.n = 0) THEN [ok |-> TRUE, n |-> d]
    ELSE IF v.k = "num" THEN [ok |-> TRUE, n |-> v.n]
    ELSE [ok |-> FALSE, n |-> 0]

\* str(s.get("name", "")).strip()
SourceName(s) == Strip(IF s.name.present THEN s.name.s ELSE <<>>)

\* str(s.get("mode", "hot")).lower().strip()
SourceMode(s) == Strip(Lower(IF s.mode.present THEN s.mode.s ELSE <<"h","o","t">>))

\* The listing that is read: new, top, or hot; hot also when top() raises.
Listing(mode, top_works) ==
    IF mode = <<"n","e","w">> THEN "new"
    ELSE IF mode = <<"t","o","p">> /\ top_works THEN "top"
    ELSE "hot"

\* _within_hours(created_utc, hours) read when the clock shows at
WithinHours(created, hours, at) == created >= at - hours

\* 1000 * math.log1p(n), for the scores and comment counts of the model's posts
Ln1pMilli(n) ==
    CASE n = 0 -> 0
      [] n = 1 -> 693
      [] n = 50 -> 3932
      [] n = 100 -> 4615
      [] n = 1000000 -> 13816

EngagementUncapped(post) ==
    1000 + Ln1pMilli(Max(0, post.score)) + (Ln1pMilli(Max(0, post.num_comments)) \div 2)

\* min(1.0 + log1p(max(0, score)) + 0.5 * log1p(max(0, com)), 12.0)
Engagement(post) == Min(EngagementUncapped(post), EngagementCap)

\* (title + "\n" + body).strip()
PostText(post) == Strip(post.title \o <<"\n">> \o post.selftext)

PostTickers(post, sw) == Range(extract_tickers(PostText(post), sw))

\* the post is read: its timestamp is readable and inside the source's window
PostCounts(src, post, at) ==
    post.created_ok /\ WithinHours(post.created, src.lookback_hours, at)

\* inc > prev[0]
IncBeats(inc, prev) == inc > prev

\* f"r/{name}"
SrcLabel(name) == <<"r/", name>>

\* One iteration of "for post in it": the three dicts after the post.
PostStep(agg, bl, bs, src, post, at, sw) ==
    IF ~PostCounts(src, post, at) \/ PostTickers(post, sw) = {}
    THEN [agg |-> agg, link |-> bl, src |-> bs]
    ELSE LET ts == PostTickers(post, sw)
             inc == src.weight * Engagement(post)
             wins(t) == t \notin DOMAIN bl \/ IncBeats(inc, bl[t][1])
         IN [agg |-> [t \in (DOMAIN agg) \cup ts |->
                        IF t \in ts
                        THEN (IF t \in DOMAIN agg THEN agg[t] ELSE 0) + inc
                        ELSE agg[t]],
             link |-> [t \in (DOMAIN bl) \cup ts |->
                        IF t \in ts /\ wins(t) THEN <<inc, Link(post.permalink)>>
                        ELSE bl[t]],
             src |-> [t \in (DOMAIN bs) \cup ts |->
                        IF t \in ts /\ wins(t) THEN SrcLabel(src.name)
                        ELSE bs[t]]]

\* round(sc, 2) of a total in units of 1e-5, in hundredths (ties to even)
Round2(x) ==
    LET q == x \div 1000
        r == x % 1000
    IN IF r < 500 THEN q
       ELSE IF r > 500 THEN q + 1
       ELSE IF q % 2 = 0 THEN q ELSE q + 1

\* sorted(agg_score.items(), key=(score, ticker), reverse=True)[:max_out]
RadarRanked(agg, mx) ==
    PySlice(SortedReverse({<<agg[t], t>> : t \in DOMAIN agg}), mx)

RadarItems(agg, bl, bs, mx) ==
    LET ranked == RadarRanked(agg, mx)
    IN [i \in DOMAIN ranked |->
           [ticker |-> ranked[i][2],
            score |-> Round2(ranked[i][1]),
            best_post |-> IF ranked[i][2] \in DOMAIN bl THEN bl[ranked[i][2]][2] ELSE None,
            best_src |-> IF ranked[i][2] \in DOMAIN bs THEN bs[ranked[i][2]] ELSE None]]

Source(name, weight, mode, limit_posts, lookback_hours) ==
    [name |-> name, weight |-> weight, mode |-> mode, limit_posts |-> limit_posts,
     lookback_hours |-> lookback_hours]

SourcePool ==
    { Source(Str(<<"a">>), Missing, NoStr, Missing, Missing),
      Source(Str(<<" ","b"," ">>), Num(10), Str(<<"T","O","P"," ">>), Num(2), Num(48)),
      Source(Str(<<"z">>), Num(0), Str(<<"n","e","w">>), Num(0), Num(0)),
      Source(Str(<<" "," ">>), Num(100), NoStr, Missing, Missing),
      Source(Str(<<"a">>), Bad, NoStr, Bad, Bad) }

Post(created, title, selftext, score, num_comments, permalink) ==
    [created_ok |-> TRUE, created |-> created, title |-> title, selftext |-> selftext,
     score |-> score, num_comments |-> num_comments, permalink |-> permalink]

PostPool ==
    { Post(Now0, <<"G","M","E">>, <<"g","m","e"," ","h","i">>, 100, 50, "/p1"),
      Post(Now0 - 2, <<"G","M","E">>, <<"g","m","e"," ","h","i">>, 100, 50, "/p2"),
      Post(Now0 - 48, <<"G","M"," ","$","f">>, <<"G","M","E","!","\n">>,
           1000000, -5, "/p3"),
      [Post(Now0, <<"G","M">>, <<>>, 1, 1, "/p4") EXCEPT !.created_ok = FALSE] }

MaxOutValues == {Missing, Num(0), Num(1), Bad}

RadarStopwords == {{<<"H","I">>}}

\* cross_subs lists: up to MaxSubs entries, no entry twice
SourceLists == {l \in SeqsUpTo(SourcePool, MaxSubs) :
                   \A i, j \in DOMAIN l : l[i] = l[j] => i = j}

Cfgs ==
    [enabled : {"missing", "false", "true"},
     cross_max_tickers : MaxOutValues,
     cross_subs : SourceLists]

InitRadar ==
    /\ entry = "radar"
    /\ pc = "enter"
    /\ stopwords \in RadarStopwords
    /\ cfg \in Cfgs
    /\ now = Now0
    /\ max_out = 0
    /\ si = 1
    /\ cur = NoCur
    /\ fetched = 0
    /\ in_feed = 0
    /\ seen = <<>>
    /\ agg_score = <<>>
    /\ best_link = <<>>
    /\ best_src = <<>>
    /\ radar = <<>>
    /\ ExtractIdle
    /\ BoardIdle

\* lines 33-41
RadarEnter ==
    /\ entry = "radar"
    /\ pc = "enter"
    /\ IF cfg.enabled # "true"
       THEN /\ pc' = "done"
            /\ UNCHANGED max_out
       ELSE LET mo == ParseNumber(cfg.cross_max_tickers, DefaultMaxOut)
            IN IF mo.ok
               THEN /\ max_out' = mo.n
                    /\ pc' = "source"
               ELSE /\ pc' = "raised"
                    /\ UNCHANGED max_out
    /\ UNCHANGED <<entry, stopwords, cfg, now, si, cur, fetched, in_feed, seen,
                   agg_score, best_link, best_src, radar, extract_vars, board_vars>>

\* lines 43-62: the next entry of cross_subs is parsed and its listing opened
NextSource ==
    /\ entry = "radar"
    /\ pc = "source"
    /\ si <= Len(cfg.cross_subs)
    /\ LET s == cfg.cross_subs[si]
           w == ParseNumber(s.weight, DefaultWeight)
           lp == ParseNumber(s.limit_posts, DefaultLimitPosts)
           lh == ParseNumber(s.lookback_hours, DefaultLookbackHours)
       IN IF SourceName(s) = <<>>
          THEN /\ si' = si + 1
               /\ UNCHANGED <<pc, cur, in_feed>>
          ELSE IF ~(w.ok /\ lp.ok /\ lh.ok)
          THEN /\ pc' = "raised"
               /\ UNCHANGED <<si, cur, in_feed>>
          ELSE \E top_works \in BOOLEAN :
               /\ cur' = [name |-> SourceName(s), weight |-> w.n,
                          mode |-> Listing(SourceMode(s), top_works),
                          limit_posts |-> lp.n, lookback_hours |-> lh.n]
               /\ in_feed' = 0
               /\ pc' = "posts"
               /\ UNCHANGED si
    /\ UNCHANGED <<entry, stopwords, cfg, now, max_out, fetched, seen, agg_score,
                   best_link, best_src, radar, extract_vars, board_vars>>

\* lines 64-91: the listing yields a post
ReadPost ==
    /\ entry = "radar"
    /\ pc = "posts"
    /\ fetched < MaxPosts
    /\ in_feed < cur.limit_posts
    /\ \E post \in PostPool :
         /\ seen' = Append(seen, [idx |-> si, source |-> cur, post |-> post, at |-> now])
         /\ LET st == PostStep(agg_score, best_link, best_src, cur, post, now, stopwords)
            IN /\ agg_score' = st.agg
               /\ best_link' = st.link
               /\ best_src' = st.src
    /\ fetched' = fetched + 1
    /\ in_feed' = in_feed + 1
    /\ UNCHANGED <<entry, pc, stopwords, cfg, now, max_out, si, cur, radar,
                   extract_vars, board_vars>>

\* the listing is exhausted
EndListing ==
    /\ entry = "radar"
    /\ pc = "posts"
    /\ si' = si + 1
    /\ pc' = "source"
    /\ UNCHANGED <<entry, stopwords, cfg, now, max_out, cur, fetched, in_feed, seen,
                   agg_score, best_link, best_src, radar, extract_vars, board_vars>>

\* lines 93-102
RankRadar ==
    /\ entry = "radar"
    /\ pc = "source"
    /\ si > Len(cfg.cross_subs)
    /\ radar' = RadarItems(agg_score, best_link, best_src, max_out)
    /\ pc' = "done"
    /\ UNCHANGED <<entry, stopwords, cfg, now, max_out, si, cur, fetched, in_feed,
                   seen, agg_score, best_link, best_src, extract_vars, board_vars>>

NextRadar == RadarEnter \/ NextSource \/ ReadPost \/ EndListing \/ RankRadar

SpecRadar == InitRadar /\ [][NextRadar]_vars

(***************************************************************************)
(* Both aggregators.                                                       *)
(***************************************************************************)
Init == InitBoard \/ InitRadar

Next == NextBoard \/ NextRadar

Spec == Init /\ [][Next]_vars

(***************************************************************************)
(* Properties.                                                             *)
(***************************************************************************)
RECURSIVE SumOver(_, _)
SumOver(S, f) ==
    IF S = {} THEN 0
    ELSE LET x == CHOOSE y \in S : TRUE
         IN f[x] + SumOver(S \ {x}, f)

SetMax(S) == CHOOSE x \in S : \A y \in S : y <= x
SetMin(S) == CHOOSE x \in S : \A y \in S : x <= y

AAPL == <<"A","A","P","L">>
SAID == <<"S","A","I","D">>
GME == <<"G","M","E">>

\* the value a configuration field has as written: the number, or the default
\* when the field is absent
AsConfigured(v, d) == IF v.k = "num" THEN v.n ELSE d

-----------------------------------------------------------------------------
\* C1: the list either aggregator returns is never longer than the configured
\* maximum (max_tickers, cross_max_tickers), 0 included.
C1_CapEnforcement ==
    /\ (entry = "board" /\ pc = "done") => Len(items) <= max_tickers
    /\ (entry = "radar" /\ pc = "done" /\ cfg.cross_max_tickers.k # "bad")
          => Len(radar) <= AsConfigured(cfg.cross_max_tickers, DefaultMaxOut)

-----------------------------------------------------------------------------
\* The (metric, ticker) pairs of the returned list, in order; the radar's
\* metric is the total before rounding.
OutKeys ==
    IF entry = "board"
    THEN [i \in DOMAIN items |-> <<items[i].unique_authors, items[i].ticker>>]
    ELSE [i \in DOMAIN radar |-> <<agg_score[radar[i].ticker], radar[i].ticker>>]

\* C2 as stated: metric descending, and tickers of equal metric in
\* lexicographic (ascending) order.
C2_TiesAscending ==
    pc = "done" =>
        \A i, j \in DOMAIN OutKeys :
            i < j => \/ OutKeys[i][1] > OutKeys[j][1]
                     \/ /\ OutKeys[i][1] = OutKeys[j][1]
                        /\ StrLess(OutKeys[i][2], OutKeys[j][2])

\* C2 as amended: metric descending, and tickers of equal metric in
\* descending lexicographic order (the greater ticker string first).
C2_TiesDescending ==
    pc = "done" =>
        \A i, j \in DOMAIN OutKeys :
            i < j => \/ OutKeys[i][1] > OutKeys[j][1]
                     \/ /\ OutKeys[i][1] = OutKeys[j][1]
                        /\ StrLess(OutKeys[j][2], OutKeys[i][2])

\* a returned list with two entries of equal metric
C2_Witness ==
    /\ pc = "done"
    /\ \E i, j \in DOMAIN OutKeys : i < j /\ OutKeys[i][1] = OutKeys[j][1]

-----------------------------------------------------------------------------
\* "$" followed by t is written in u
DollarWritten(u, t) ==
    \E p \in 1..Len(u) : u[p] = "$" /\ p + Len(t) <= Len(u)
                         /\ SubSeq(u, p + 1, p + Len(t)) = t

\* C3 as stated: no member of the stopword set is in the result of
\* extract_tickers, "$"-prefixed single letters included.
C3_NoStopwordReturned ==
    pc = "done" => \A i \in DOMAIN result : result[i] \notin stopwords

\* C3 as amended: no stopword of two or more letters is in the result,
\* whatever its capitalization and with or without "$"; a one-letter stopword
\* is in the result only where the text writes it with the "$" prefix.
C3_StopwordSuppressedExceptDollarLetter ==
    pc = "done" =>
        \A i \in DOMAIN result :
            result[i] \in stopwords =>
                Len(result[i]) = 1 /\ DollarWritten(Upper(text), result[i])

\* a stopword written in mixed case behind a "$" is suppressed
C3_Witness ==
    /\ pc = "done"
    /\ text = <<"$","A","f">>
    /\ <<"A","F">> \in stopwords
    /\ result = <<>>

-----------------------------------------------------------------------------
\* The tokens of u the boundary rule names: an optional "$" and 1-5 letters,
\* with no character of `before` just in front and no letter or digit behind.
BoundaryTokens(u, before) ==
    {pq \in (1..Len(u)) \X (1..Len(u)) :
        /\ pq[1] <= pq[2]
        /\ LET tok == SubSeq(u, pq[1], pq[2])
               letters == IF Head(tok) = "$" THEN Tail(tok) ELSE tok
           IN /\ Len(letters) \in 1..5
              /\ \A k \in DOMAIN letters : IsUpperLetter(letters[k])
        /\ (pq[1] > 1 => u[pq[1] - 1] \notin before)
        /\ (pq[2] < Len(u) => u[pq[2] + 1] \notin UpperLetters \cup Digits)}

RuleTickers(txt, sw, before) ==
    LET u == Upper(txt)
    IN {StripDollar(SubSeq(u, pq[1], pq[2])) :
            pq \in {x \in BoundaryTokens(u, before) :
                        is_candidate_ticker(SubSeq(u, x[1], x[2]), sw)}}

\* C4 as stated: the result is exactly the accepted tokens not next to a
\* letter or digit, and the example text yields exactly {AAPL, F} under every
\* stopword set, the empty one included.
C4_BoundaryRuleAndExample ==
    pc = "done" =>
        /\ Range(result) = RuleTickers(text, stopwords, UpperLetters \cup Digits)
        /\ text = SampleText => Range(result) = {AAPL, <<"F">>}

\* C4 as amended: the result is exactly the accepted tokens that have no
\* letter, digit or "$" just in front and no letter or digit just behind; the
\* example text yields {AAPL, F, SAID}, and {AAPL, F} only when SAID is a
\* stopword.
C4_BoundaryRuleWithDollarAndSaid ==
    pc = "done" =>
        /\ Range(result) = RuleTickers(text, stopwords, UpperLetters \cup Digits \cup {"$"})
        /\ (text = SampleText /\ AAPL \notin stopwords) =>
              Range(result) = {AAPL, <<"F">>} \cup ({SAID} \ stopwords)

\* the example text under the empty stopword set
C4_Witness ==
    /\ pc = "done"
    /\ text = SampleText
    /\ stopwords = {}
    /\ result = <<AAPL, <<"F">>, SAID>>

-----------------------------------------------------------------------------
\* the comments that have a body, an author and an accepted mention of t
MentioningComments(t) ==
    {j \in DOMAIN comments :
        /\ comments[j].has_body
        /\ ~comments[j].author_null
        /\ t \in Range(extract_tickers(comments[j].body, stopwords))}

\* C5: unique_authors of a returned ticker is the number of distinct
\* lower-cased authors among the comments with a body, an author and an
\* accepted mention of it.
C5_UniqueAuthors ==
    (entry = "board" /\ pc = "done") =>
        \A i \in DOMAIN items :
            items[i].unique_authors =
                Cardinality({Lower(comments[j].author) :
                                j \in MentioningComments(items[i].ticker)})

\* GME is mentioned twice in one comment, by Ann and by ann, and by a deleted
\* author: one unique author
C5_Witness ==
    /\ entry = "board" /\ pc = "done"
    /\ \E i \in DOMAIN items : items[i].ticker = GME /\ items[i].unique_authors = 1
    /\ \E j, k, l \in DOMAIN comments :
          /\ {j, k} \subseteq MentioningComments(GME)
          /\ comments[j].author = <<"A","n","n">>
          /\ comments[k].author = <<"a","n","n">>
          /\ comments[l].author_null /\ comments[l].body = GME

-----------------------------------------------------------------------------
\* the configured lookback window of the source a read post came from
ConfiguredLookback(e) ==
    AsConfigured(cfg.cross_subs[e.idx].lookback_hours, DefaultLookbackHours)

\* the post was created before now minus the configured lookback_hours
OlderThanConfigured(e) ==
    /\ e.post.created_ok
    /\ cfg.cross_subs[e.idx].lookback_hours.k # "bad"
    /\ e.post.created < e.at - ConfiguredLookback(e)

\* C6: reading a post older than the lookback_hours configured for its source
\* changes no total, creates no entry and replaces no best evidence.
C6_OldPostAddsNothing ==
    [][(entry = "radar" /\ pc = "posts" /\ Len(seen') = Len(seen) + 1
            /\ OlderThanConfigured(seen'[Len(seen')]))
        => (agg_score' = agg_score /\ best_link' = best_link /\ best_src' = best_src)]_vars

-----------------------------------------------------------------------------
\* the read posts with a readable time inside the configured window that
\* mention t
InWindowMentions(t) ==
    {j \in DOMAIN seen :
        /\ seen[j].post.created_ok
        /\ ~OlderThanConfigured(seen[j])
        /\ t \in PostTickers(seen[j].post, stopwords)}

ConfiguredContribution(j) ==
    AsConfigured(cfg.cross_subs[seen[j].idx].weight, DefaultWeight) * Engagement(seen[j].post)

SeenTickers == UNION {PostTickers(seen[j].post, stopwords) : j \in DOMAIN seen}

\* C7: after all sources, each ticker's total is the sum over the in-window
\* posts mentioning it of configured weight x clamped engagement, each post
\* once.
C7_WeightedTotal ==
    (entry = "radar" /\ pc = "done" /\ cfg.enabled = "true") =>
        \A t \in SeenTickers \cup DOMAIN agg_score :
            (IF t \in DOMAIN agg_score THEN agg_score[t] ELSE 0)
                = SumOver(InWindowMentions(t),
                          [j \in DOMAIN seen |-> ConfiguredContribution(j)])

-----------------------------------------------------------------------------
\* C8: no configuration makes the call raise; an absent or malformed numeric
\* field has its default, an absent mode is hot, a blank name is skipped.
C8_ConfigDefaulting ==
    entry = "radar" =>
        /\ pc # "raised"
        /\ pc = "posts" =>
              LET s == cfg.cross_subs[si]
              IN /\ SourceName(s) # <<>>
                 /\ s.weight.k # "num" => cur.weight = DefaultWeight
                 /\ s.limit_posts.k # "num" => cur.limit_posts = DefaultLimitPosts
                 /\ s.lookback_hours.k # "num" => cur.lookback_hours = DefaultLookbackHours
                 /\ ~s.mode.present => cur.mode = "hot"

-----------------------------------------------------------------------------
\* The tickers for which each record folded so far counts (none for a record
\* that is skipped), in the order the records were folded.
RECURSIVE BoardCounted(_)
BoardCounted(cs) ==
    IF cs = <<>> THEN <<>>
    ELSE <<IF SkipComment(Head(cs)) THEN {} ELSE CommentTickers(Head(cs), stopwords)>>
             \o BoardCounted(Tail(cs))

RECURSIVE RadarCounted(_)
RadarCounted(es) ==
    IF es = <<>> THEN <<>>
    ELSE <<IF PostCounts(Head(es).source, Head(es).post, Head(es).at)
           THEN PostTickers(Head(es).post, stopwords) ELSE {}>>
             \o RadarCounted(Tail(es))

RECURSIVE RadarStrengths(_)
RadarStrengths(es) ==
    IF es = <<>> THEN <<>>
    ELSE <<Head(es).source.weight * Engagement(Head(es).post)>>
             \o RadarStrengths(Tail(es))

\* the earliest record among those of Q of maximal strength
EarliestStrongest(Q, strength) ==
    LET strongest == SetMax({strength[k] : k \in Q})
    IN SetMin({j \in Q : strength[j] = strongest})

BoardEvidenceFirstWins ==
    LET counted == BoardCounted(SubSeq(comments, 1, ci - 1))
        records(t) == {j \in DOMAIN counted : t \in counted[j]}
        score == [j \in DOMAIN counted |-> comments[j].score]
    IN /\ DOMAIN ticker_best_comment = UNION Range(counted)
       /\ \A t \in DOMAIN ticker_best_comment :
             LET first == EarliestStrongest(records(t), score)
             IN ticker_best_comment[t] =
                    <<comments[first].score, Link(comments[first].permalink)>>

RadarEvidenceFirstWins ==
    LET counted == RadarCounted(seen)
        records(t) == {j \in DOMAIN counted : t \in counted[j]}
        strength == RadarStrengths(seen)
    IN /\ DOMAIN best_link = UNION Range(counted)
       /\ DOMAIN best_src = DOMAIN best_link
       /\ \A t \in DOMAIN best_link :
             LET first == EarliestStrongest(records(t), strength)
             IN /\ best_link[t] = <<strength[first], Link(seen[first].post.permalink)>>
                /\ best_src[t] = SrcLabel(seen[first].source.name)

\* C9: at every point of either fold the stored evidence of a ticker is that
\* of the earliest record of maximal strength, and the radar's source name is
\* that record's.
C9_BestEvidenceFirstWins ==
    /\ entry = "board" => BoardEvidenceFirstWins
    /\ entry = "radar" => RadarEvidenceFirstWins

\* a later comment of equal, maximal score was folded and the earlier one is kept
C9_Witness ==
    /\ entry = "board"
    /\ LET counted == BoardCounted(SubSeq(comments, 1, ci - 1))
       IN \E t \in DOMAIN ticker_best_comment :
             \E j, k \in {l \in DOMAIN counted : t \in counted[l]} :
                 /\ j < k
                 /\ comments[j].score = comments[k].score
                 /\ comments[j].permalink # comments[k].permalink
                 /\ \A l \in DOMAIN counted :
                       t \in counted[l] => comments[l].score <= comments[j].score
                 /\ ticker_best_comment[t][2] = Link(comments[j].permalink)

-----------------------------------------------------------------------------
Pairs(its) == [i \in DOMAIN its |-> <<its[i].ticker, its[i].unique_authors>>]

\* C10: two calls on the same comments in different orders return the same
\* sequence of (ticker, unique_authors).
C10_OrderIndependent ==
    (entry = "board" /\ pc = "done" /\ first_items # <<>>) =>
        Pairs(items) = Pairs(first_items[1])

\* the second call ended, and the order did change the best_comment field
C10_Witness ==
    /\ entry = "board" /\ pc = "done" /\ first_items # <<>>
    /\ items # <<>>
    /\ items # first_items[1]

====
